---- MODULE Spec2Model ----
(***************************************************************************)
(* A model of the search engine: the Indexer that builds the inverted      *)
(* index (src/src/indexer/indexer.py), the Retriever that answers boolean   *)
(* queries over it (src/src/retriever/retriever.py) and the Crawler that   *)
(* collects the pages (src/src/crawler/crawler.py).                        *)
(*                                                                         *)
(* A text is the sequence of its whitespace-delimited pieces, a query is   *)
(* the sequence query.split() yields, a posting list is a sequence of      *)
(* document ids, and a Python dict is a function on its set of keys.       *)
(***************************************************************************)
EXTENDS Integers, Sequences, FiniteSets, TLC

VARIABLES
    documents,    \* Index.documents: the list of Document records
    postings,     \* Index.postings: term -> list of document ids
    failed_pdfs,  \* Indexer.failed_pdfs
    raised,       \* the exception the last Indexer call let escape, or "none"
    nltk_data,    \* whether NLTK's stopword corpus is installed on this machine
    pc,           \* the Retriever's caller: "ready" before its call, "done" after
    call,         \* the Retriever call made: [op, arg]
    locals,       \* the locals of search_query / _evaluate_query when it was left
    ret,          \* what the call gave its caller: [kind, value]
    input_folder, \* args.input_folder: the files os.listdir yields, in its order
    index_file,   \* the file etc/indexes/<output_name>: the index pickled into it
    builds,       \* how many calls of build_index this Indexer has answered
    crawler       \* Crawler.crawl: its arguments, its locals and where it stands

build_vars == <<input_folder, index_file, builds>>

vars == <<documents, postings, failed_pdfs, raised, nltk_data, pc, call, locals, ret,
          input_folder, index_file, builds, crawler>>

(***************************************************************************)
(* Bounds.                                                                 *)
(***************************************************************************)
\* The Indexer ingests at most this many documents.
MaxDocs == 3
\* The corpora an index is loaded from hold at most this many records
\* (beside the three-document scenario corpus, which is always there).
MaxIndexDocs == 2
\* The corpus holds at most this many PDF files that fail.
MaxFailed == 1
\* The input folder of build_index holds at most this many files.
MaxFiles == 2
\* build_index is called at most this many times on one Indexer.
MaxBuilds == 2
\* The set operations are tried on the indexes of at most this many documents.
MaxUniverse == 3
\* args.max_webs is at most this.
MaxWebs == 3

(***************************************************************************)
(* 1. The Indexer                                                          *)
(***************************************************************************)

\* str.lower on the pieces the model's texts are made of
lower(w) ==
    CASE w = "The" -> "the"
      [] w = "Grado," -> "grado,"
      [] w = "Grado" -> "grado"
      [] OTHER -> w

\* unidecode on the pieces the model's texts are made of
unidecode(w) ==
    CASE w = "máster" -> "master"
      [] OTHER -> w

\* Indexer.remove_punctuation, which drops the characters of string.punctuation,
\* on the pieces the model's texts are made of; no method of the Indexer calls it
remove_punctuation(w) ==
    CASE w = "Grado," -> "Grado"
      [] w = "grado," -> "grado"
      [] w \in {"<p>", "</p>"} -> "p"
      [] w = "<![" -> ""
      [] OTHER -> w

\* stopwords.words("english"), cut to the model's vocabulary
stop_words == {"the", "and", "or", "not"}

\* A markup tag standing as a piece of its own
IsTag(w) == w \in {"<p>", "</p>"}

\* Indexer.parse: BeautifulSoup(text).get_text(separator=" ", strip=True)
parse(text) == SelectSeq(text, LAMBDA w : ~IsTag(w))

\* Markup html.parser gives up on: BeautifulSoup(text, "html.parser") raises
\* ParserRejectedMarkup, and so does Indexer.parse
parse_rejects(text) == \E i \in 1..Len(text) : text[i] = "<!["

\* Indexer.tokenize: text.split(); a text is already the sequence of its pieces
tokenize(text) == SelectSeq(text, LAMBDA w : w # "")

\* Indexer.remove_stopwords
remove_stopwords(words) ==
    SelectSeq(words, LAMBDA w : unidecode(lower(w)) \notin stop_words)

Range(s) == {s[i] : i \in 1..Len(s)}

\* update_postings looping over words instead of set(words): a word that occurs
\* twice in a document appends the document's id twice
RECURSIVE postings_per_occurrence(_, _, _)
postings_per_occurrence(p, doc_id, text) ==
    LET words == remove_stopwords(tokenize(text))
    IN  IF words = <<>> THEN p
        ELSE LET w == unidecode(Head(words))
                 q == [k \in (DOMAIN p) \cup {w} |->
                          IF k # w THEN p[k]
                          ELSE IF w \in DOMAIN p THEN Append(p[w], doc_id)
                          ELSE <<doc_id>>]
             IN  postings_per_occurrence(q, doc_id, Tail(words))

\* update_postings assigning [doc_id] to every word of the document, whether
\* the word is a key already or not
update_postings_overwrite(p, doc_id, text) ==
    LET words == Range(remove_stopwords(tokenize(text)))
        keys  == {unidecode(w) : w \in words}
    IN  [w \in (DOMAIN p) \cup keys |-> IF w \in keys THEN <<doc_id>> ELSE p[w]]

\* Indexer.update_postings(doc_id, text) on the postings p
update_postings(p, doc_id, text) ==
    LET words == Range(remove_stopwords(tokenize(text)))
        keys  == {unidecode(w) : w \in words}
    IN  [w \in (DOMAIN p) \cup keys |->
            IF w \in keys
            THEN IF w \in DOMAIN p THEN Append(p[w], doc_id) ELSE <<doc_id>>
            ELSE p[w]]

\* The URL of the k-th page of the corpus (the crawler stores a URL once)
Url(k) == <<"http", k>>

\* Document(id, title, url, text)
Document(id, title, url, text) ==
    [id |-> id, title |-> title, url |-> url, text |-> text]

\* The texts of the model's corpus
Texts ==
    { <<>>, <<"grado">>, <<"docencia">>,
      <<"grado", "docencia">>, <<"grado", "master">>, <<"grado", "grado">>,
      <<"The", "grado">>, <<"máster">>, <<"<p>", "grado", "</p>">>, <<"Grado,">> }

\* One element of a JSON file's list: a dict with "url" and "text" (no "title"),
\* or one that lacks a field
Record(k, text) == [url |-> Url(k), text |-> text]
NoUrlRecord == [text |-> <<"grado">>]
NoTextRecord == [url |-> <<"http", 0>>]

\* process_json's loop body numbering the documents from 0: doc_id is
\* len(documents) taken before the append
json_record_zero_based(s, data, stopwords_ok) ==
    IF s.raised # "none" THEN s
    ELSE IF ~({"url", "text"} \subseteq DOMAIN data)
    THEN [s EXCEPT !.raised = "KeyError"]
    ELSE LET doc_id   == Len(s.documents)
             document == Document(doc_id, "", data.url, data.text)
         IN  [documents |-> Append(s.documents, document),
              postings  |-> s.postings,
              raised    |-> "none"]

\* The body of process_json's loop for one record, on the state
\* s = [documents, postings, raised]: a missing key raises KeyError before the
\* document is appended; after it was appended, parse raises on markup the
\* parser rejects, and without the stopword corpus stopwords.words raises
\* LookupError in update_postings
json_record(s, data, stopwords_ok) ==
    IF s.raised # "none" THEN s
    ELSE IF ~({"url", "text"} \subseteq DOMAIN data)
    THEN [s EXCEPT !.raised = "KeyError"]
    ELSE LET doc_id   == Len(s.documents) + 1
             title    == IF "title" \in DOMAIN data THEN data.title ELSE ""
             document == Document(doc_id, title, data.url, data.text)
             tokens   == tokenize(parse(document.text))
         IN  IF parse_rejects(document.text)
             THEN [documents |-> Append(s.documents, document),
                   postings  |-> s.postings,
                   raised    |-> "ParserRejectedMarkup"]
             ELSE IF stopwords_ok
             THEN [documents |-> Append(s.documents, document),
                   postings  |-> update_postings(s.postings, doc_id, tokens),
                   raised    |-> "none"]
             ELSE [documents |-> Append(s.documents, document),
                   postings  |-> s.postings,
                   raised    |-> "LookupError"]

\* The loop of process_json over data_list
RECURSIVE json_loop(_, _, _)
json_loop(s, data_list, stopwords_ok) ==
    IF data_list = <<>> THEN s
    ELSE json_loop(json_record(s, Head(data_list), stopwords_ok),
                   Tail(data_list), stopwords_ok)

\* text += page.extract_text() over the pages: the pages' strings are joined
\* with nothing between them, so the last piece of one page and the first of
\* the next become one piece
page_concat(text, page) ==
    IF text = <<>> THEN page
    ELSE IF page = <<>> THEN text
    ELSE SubSeq(text, 1, Len(text) - 1)
         \o <<text[Len(text)] \o page[1]>>
         \o SubSeq(page, 2, Len(page))

RECURSIVE pdf_text(_, _)
pdf_text(text, pages) ==
    IF pages = <<>> THEN text
    ELSE pdf_text(page_concat(text, Head(pages).text), Tail(pages))

\* The PDF files of the model's corpus: whether pdfplumber opens the file, and
\* what each page holds; extract_text gives None for a page without a text
\* layer (has_text false)
Page(text) == [has_text |-> TRUE, text |-> text]
ImagePage == [has_text |-> FALSE, text |-> <<>>]
PdfPages ==
    { Page(<<"grado">>), Page(<<"master", "docencia">>), Page(<<"<![">>), ImagePage }
Pdfs ==
    [opens : BOOLEAN,
     pages : {<<>>} \cup {<<p>> : p \in PdfPages}
                    \cup {<<p, q>> : p \in PdfPages, q \in {Page(<<"grado">>), ImagePage}}]

(***************************************************************************)
(* Indexer.process_json(filename), the file holding data_list.  The records *)
(* before the first one that lacks a key stay ingested.                     *)
(***************************************************************************)
process_json(data_list) ==
    /\ pc = "index"
    /\ Len(documents) + Len(data_list) <= MaxDocs
    /\ LET s == json_loop([documents |-> documents, postings |-> postings,
                           raised |-> "none"], data_list, nltk_data)
       IN  /\ documents' = s.documents
           /\ postings' = s.postings
           /\ raised' = s.raised
    /\ UNCHANGED <<failed_pdfs, nltk_data, pc, call, locals, ret, build_vars, crawler>>

\* The JSON files offered to the Indexer when it holds n documents
JsonRecords(k) == {Record(k, t) : t \in Texts} \cup {NoUrlRecord, NoTextRecord}
JsonFiles(n) ==
    {<<>>} \cup {<<r>> : r \in JsonRecords(n + 1)}
           \cup {<<r, q>> : r \in JsonRecords(n + 1), q \in JsonRecords(n + 2)}

(***************************************************************************)
(* Indexer.process_pdf(filename).  Every exception is caught: the file is  *)
(* added to failed_pdfs.  The file may not open, a page may give None      *)
(* (str + None raises TypeError); after the document was appended, parse   *)
(* may reject the text's markup and, without the stopword corpus,          *)
(* remove_stopwords raises LookupError.                                    *)
(***************************************************************************)
pdf_file(s, filename, pdf, stopwords_ok) ==
    IF ~pdf.opens \/ \E p \in Range(pdf.pages) : ~p.has_text
    THEN [s EXCEPT !.failed_pdfs = Append(s.failed_pdfs, filename)]
    ELSE LET text     == pdf_text(<<>>, pdf.pages)
             doc_id   == Len(s.documents) + 1
             document == Document(doc_id, "", "", text)
             tokens   == tokenize(parse(document.text))
         IN  IF stopwords_ok /\ ~parse_rejects(document.text)
             THEN [s EXCEPT !.documents = Append(s.documents, document),
                            !.postings = update_postings(s.postings, doc_id, tokens)]
             ELSE [s EXCEPT !.documents = Append(s.documents, document),
                            !.failed_pdfs = Append(s.failed_pdfs, filename)]

\* The Indexer's fields, as the record the loops work on
IndexerState ==
    [documents |-> documents, postings |-> postings,
     failed_pdfs |-> failed_pdfs, raised |-> "none"]

process_pdf(filename, pdf) ==
    /\ pc = "index"
    /\ Len(documents) < MaxDocs
    /\ Len(failed_pdfs) < MaxFailed
    /\ LET s == pdf_file(IndexerState, filename, pdf, nltk_data)
       IN  /\ documents' = s.documents
           /\ postings' = s.postings
           /\ failed_pdfs' = s.failed_pdfs
           /\ raised' = s.raised
    /\ UNCHANGED <<nltk_data, pc, call, locals, ret, build_vars, crawler>>

(***************************************************************************)
(* Indexer.build_index: every file of the input folder in os.listdir's     *)
(* order, a .json file through process_json, a .pdf file through           *)
(* process_pdf, any other file not at all; then the index is pickled into  *)
(* etc/indexes.  Only the call of process_pdf stands in a try: what        *)
(* process_json raises leaves the loop and build_index, before the save.   *)
(***************************************************************************)
JsonFile(data_list) == [kind |-> "json", data_list |-> data_list]
PdfFile(pdf) == [kind |-> "pdf", pdf |-> pdf]
OtherFile == [kind |-> "other"]

\* The loop of build_index over the files from the i-th on
RECURSIVE build_loop(_, _, _, _)
build_loop(s, files, i, stopwords_ok) ==
    IF i > Len(files) \/ s.raised # "none" THEN s
    ELSE LET file == files[i]
             t == IF file.kind = "json"
                  THEN LET r == json_loop([documents |-> s.documents,
                                           postings |-> s.postings,
                                           raised |-> "none"],
                                          file.data_list, stopwords_ok)
                       IN  [s EXCEPT !.documents = r.documents,
                                     !.postings = r.postings,
                                     !.raised = r.raised]
                  ELSE IF file.kind = "pdf"
                  THEN pdf_file(s, <<"pdf", i>>, file.pdf, stopwords_ok)
                  ELSE s
         IN  build_loop(t, files, i + 1, stopwords_ok)

\* Index.save: pickle.dump of the Index object
NoIndexFile == [saved |-> FALSE]
save(ix) == [saved |-> TRUE, documents |-> ix.documents, postings |-> ix.postings]

build_index ==
    /\ pc = "build"
    /\ raised = "none"
    /\ builds < MaxBuilds
    /\ builds' = builds + 1
    /\ LET s == build_loop(IndexerState, input_folder, 1, nltk_data)
       IN  /\ documents' = s.documents
           /\ postings' = s.postings
           /\ failed_pdfs' = s.failed_pdfs
           /\ raised' = s.raised
           /\ index_file' = IF s.raised = "none" THEN save(s) ELSE index_file
    /\ UNCHANGED <<nltk_data, pc, call, locals, ret, input_folder, crawler>>

\* The files an input folder may hold
FolderRecords ==
    { Record(1, <<"grado", "docencia">>), Record(2, <<"grado", "master">>),
      Record(3, <<"docencia">>), NoUrlRecord }
FolderFiles ==
    {JsonFile(<<>>)} \cup {JsonFile(<<r>>) : r \in FolderRecords}
        \cup {JsonFile(<<r, q>>) : r, q \in FolderRecords}
        \cup {PdfFile([opens |-> TRUE, pages |-> <<p>>]) :
                  p \in {Page(<<"grado">>), Page(<<"<![">>), ImagePage}}
        \cup {OtherFile}
RECURSIVE FoldersOfLen(_)
FoldersOfLen(n) ==
    IF n = 0 THEN {<<>>}
    ELSE {Append(c, f) : c \in FoldersOfLen(n - 1), f \in FolderFiles}
Folders ==
    UNION {FoldersOfLen(n) : n \in 0..MaxFiles}
        \cup { <<JsonFile(<<Record(1, <<"grado", "docencia">>)>>),
                 JsonFile(<<Record(2, <<"grado", "master">>), NoUrlRecord>>),
                 JsonFile(<<Record(3, <<"docencia">>)>>)>> }

(***************************************************************************)
(* 2. The Retriever                                                        *)
(***************************************************************************)

\* The words a query may name: three the corpus can hold, one it never holds
Vocabulary == {"grado", "docencia", "master"}
Words == Vocabulary \cup {"tesis"}
Operators == {"AND", "OR", "NOT"}

\* str.isalnum on the model's tokens: "(", ")" and "(grado" are not alphanumeric,
\* a word is, and so is each of "AND", "OR", "NOT"
isalnum(token) == token \in Words \cup Operators

\* precedence.get(token, 0) of shunting_yard
precedence(token) ==
    CASE token = "NOT" -> 3
      [] token = "AND" -> 2
      [] token = "OR"  -> 1
      [] OTHER -> 0

Top(stack) == stack[Len(stack)]
Pop(stack) == SubSeq(stack, 1, Len(stack) - 1)

\* Whether shunting_yard's pop loop for token goes on with top on the stack:
\* the loop of an operator (lines 47-52), of ")" (lines 57-58), and the one
\* after the last token (lines 62-63), token being "" there
sy_pops(token, top) ==
    IF token \in Operators
    THEN top # "(" /\ precedence(top) >= precedence(token)
    ELSE IF token = ")" THEN top # "("
    ELSE TRUE

\* while operator_stack and ...: output.append(operator_stack.pop()), on
\* s = [output, operator_stack]
RECURSIVE sy_pop_while(_, _)
sy_pop_while(s, token) ==
    IF s.operator_stack = <<>> \/ ~sy_pops(token, Top(s.operator_stack)) THEN s
    ELSE sy_pop_while([output |-> Append(s.output, Top(s.operator_stack)),
                       operator_stack |-> Pop(s.operator_stack)], token)

\* The body of shunting_yard's loop for one token.  The first test is
\* token.isalnum(), which an operator passes too.
sy_token(s, token) ==
    IF isalnum(token)
    THEN [s EXCEPT !.output = Append(s.output, token)]
    ELSE IF token \in Operators
    THEN LET t == sy_pop_while(s, token)
         IN  [t EXCEPT !.operator_stack = Append(t.operator_stack, token)]
    ELSE IF token = "("
    THEN [s EXCEPT !.operator_stack = Append(s.operator_stack, token)]
    ELSE IF token = ")"
    THEN LET t == sy_pop_while(s, token)
         IN  IF t.operator_stack # <<>> /\ Top(t.operator_stack) = "("
             THEN [t EXCEPT !.operator_stack = Pop(t.operator_stack)]
             ELSE t
    ELSE s

RECURSIVE sy_loop(_, _)
sy_loop(s, tokens) ==
    IF tokens = <<>> THEN s
    ELSE sy_loop(sy_token(s, Head(tokens)), Tail(tokens))

\* Retriever.shunting_yard(query), query given as query.split()
shunting_yard(query) ==
    LET s == sy_loop([output |-> <<>>, operator_stack |-> <<>>], query)
    IN  sy_pop_while(s, "").output

\* list(set): CPython keeps a small int i in slot i mod size of the set's hash
\* table and list() walks the slots in order.  A table has 8 slots until its
\* fifth key arrives and 16 or 32 after that, so the ids below 16 leave a
\* grown table in ascending order and a table of 8 with the id 8 first.
SlotLess(i, j, size) == (i % size < j % size) \/ (i % size = j % size /\ i < j)
RECURSIVE list_of_set(_, _)
list_of_set(S, size) ==
    IF S = {} THEN <<>>
    ELSE LET first == CHOOSE i \in S : \A j \in S \ {i} : SlotLess(i, j, size)
         IN  <<first>> \o list_of_set(S \ {first}, size)

\* The slots of the table a set has after keys were added to it one by one
TableOf(used) == IF used <= 4 THEN 8 ELSE 32

\* _not_ taking the universe from range(len(documents)): the ids 0..N-1
_not_zero_based(ix, operand_a) ==
    list_of_set((0..(Len(ix.documents) - 1)) \ Range(operand_a), 32)

\* Retriever._and_, _or_, _not_ on the index ix = [documents, postings].
\* set & set adds the common keys to a new set; set | set copies the first set
\* and grows the copy for all keys of the second before adding them; set - set
\* adds the keys left to a new set, unless the first set has more than four
\* times the keys of the second: then it copies the first and discards.
_and_(posting_a, posting_b) ==
    LET result == Range(posting_a) \cap Range(posting_b)
    IN  list_of_set(result, TableOf(Cardinality(result)))
_or_(posting_a, posting_b) ==
    list_of_set(Range(posting_a) \cup Range(posting_b),
                TableOf(Cardinality(Range(posting_a)) + Cardinality(Range(posting_b))))
_not_(ix, operand_a) ==
    LET n      == Len(ix.documents)
        result == (1..n) \ Range(operand_a)
    IN  IF n \div 4 > Cardinality(Range(operand_a))
        THEN list_of_set(result, TableOf(n))
        ELSE list_of_set(result, TableOf(Cardinality(result)))

\* One operator popped off _evaluate_query's operator stack and applied to the
\* result stack, on the locals e = [result_stack, operator_stack,
\* inside_parenthesis, exit]; list.pop() on an empty list raises IndexError.
\* e.index is self.index as the evaluation has left it, and e.aliases tells of
\* every value on the result stack which list object it is: the posting list
\* of that term inside the index, or with "" a list of its own.
apply_operator(ix, e) ==
    LET operator == Top(e.operator_stack)
        ops      == Pop(e.operator_stack)
        rs       == e.result_stack
        n        == Len(rs)
    IN  IF operator = "NOT"
        THEN IF n < 1
             THEN [e EXCEPT !.operator_stack = ops, !.exit = "IndexError"]
             ELSE [e EXCEPT !.operator_stack = ops,
                            !.result_stack = Append(Pop(rs), _not_(ix, rs[n])),
                            !.aliases = Append(Pop(e.aliases), "")]
        ELSE IF n < 2
             THEN [e EXCEPT !.operator_stack = ops, !.result_stack = <<>>,
                            !.aliases = <<>>, !.exit = "IndexError"]
             ELSE [e EXCEPT !.operator_stack = ops,
                            !.result_stack =
                                Append(SubSeq(rs, 1, n - 2),
                                       IF operator = "AND"
                                       THEN _and_(rs[n - 1], rs[n])
                                       ELSE _or_(rs[n - 1], rs[n])),
                            !.aliases = Append(SubSeq(e.aliases, 1, n - 2), "")]

\* The while loop of the AND/OR branch (lines 116-132)
RECURSIVE eval_binary_loop(_, _)
eval_binary_loop(ix, e) ==
    IF /\ e.exit = "run"
       /\ e.operator_stack # <<>>
       /\ Top(e.operator_stack) \in {"AND", "OR"}
       /\ e.inside_parenthesis = 0
    THEN eval_binary_loop(ix, apply_operator(ix, e))
    ELSE e

\* The while loop of the ")" branch (lines 140-152)
RECURSIVE eval_paren_loop(_, _)
eval_paren_loop(ix, e) ==
    IF e.exit = "run" /\ e.operator_stack # <<>> /\ Top(e.operator_stack) # "("
    THEN eval_paren_loop(ix, apply_operator(ix, e))
    ELSE e

\* The body of _evaluate_query's loop for one term (lines 105-156)
eval_term(ix, e, term) ==
    IF e.exit # "run" THEN e
    ELSE IF term \in DOMAIN ix.postings
    THEN [e EXCEPT !.result_stack = Append(e.result_stack, ix.postings[term]),
                   !.aliases = Append(e.aliases, term)]
    ELSE IF term = "NOT"
    THEN [e EXCEPT !.operator_stack = Append(e.operator_stack, "NOT")]
    ELSE IF term \in {"AND", "OR"}
    THEN LET f == eval_binary_loop(ix, e)
         IN  IF f.exit # "run" THEN f
             ELSE [f EXCEPT !.operator_stack = Append(f.operator_stack, term)]
    ELSE IF term = "("
    THEN [e EXCEPT !.inside_parenthesis = e.inside_parenthesis + 1]
    ELSE IF term = ")"
    THEN LET f == eval_paren_loop(ix, [e EXCEPT !.inside_parenthesis =
                                                    e.inside_parenthesis - 1])
         IN  IF f.exit # "run" THEN f
             ELSE IF f.operator_stack = <<>>
             THEN [f EXCEPT !.exit = "IndexError"]
             ELSE [f EXCEPT !.operator_stack = Pop(f.operator_stack)]
    ELSE e

RECURSIVE eval_loop(_, _, _)
eval_loop(ix, e, query_terms) ==
    IF query_terms = <<>> THEN e
    ELSE eval_loop(ix, eval_term(ix, e, Head(query_terms)), Tail(query_terms))

\* The loop over the operators left (lines 159-186): an operator that lacks
\* operands prints an error and returns []
RECURSIVE eval_rest(_, _)
eval_rest(ix, e) ==
    IF e.exit # "run" \/ e.operator_stack = <<>> THEN e
    ELSE LET operator == Top(e.operator_stack)
         IN  IF operator = "NOT" /\ e.result_stack = <<>>
             THEN [e EXCEPT !.operator_stack = Pop(e.operator_stack),
                            !.exit = "return [] (NOT)"]
             ELSE IF operator \in {"AND", "OR"} /\ Len(e.result_stack) < 2
             THEN [e EXCEPT !.operator_stack = Pop(e.operator_stack),
                            !.exit = "return [] (AND/OR)"]
             ELSE eval_rest(ix, apply_operator(ix, e))

\* Retriever._generate_snippet: the model's texts hold no heading and are
\* shorter than 150 characters, so the snippet is content[:150], the content
_generate_snippet(content) == SubSeq(content, 1, Len(content))

\* Retriever._get_result_info
_get_result_info(ix, doc_id) ==
    LET document == ix.documents[doc_id]
    IN  [url |-> document.url, snippet |-> _generate_snippet(document.text)]

\* The end of _evaluate_query giving every document when the result stack is
\* empty, instead of []
eval_return_all(ix, e) ==
    IF e.exit = "IndexError"
    THEN [kind |-> "raise", value |-> "IndexError", locals |-> e]
    ELSE IF e.exit = "run" /\ e.result_stack # <<>>
    THEN [kind |-> "return",
          value |-> [i \in 1..Len(e.result_stack[1]) |->
                        _get_result_info(ix, e.result_stack[1][i])],
          locals |-> [e EXCEPT !.exit = "return results"]]
    ELSE [kind |-> "return",
          value |-> [i \in 1..Len(ix.documents) |-> _get_result_info(ix, i)],
          locals |-> [e EXCEPT !.exit = "return results"]]

\* The end of _evaluate_query putting the final ids in descending order with
\* list.sort(reverse=True), in place: a posting list of the index that is the
\* final value is reversed inside the index
eval_return_sorting(ix, e) ==
    IF e.exit = "run" /\ e.result_stack # <<>> /\ e.aliases[1] # ""
    THEN LET ids == e.result_stack[1]
             sorted == [i \in 1..Len(ids) |-> ids[Len(ids) + 1 - i]]
         IN  [kind |-> "return",
              value |-> [i \in 1..Len(sorted) |-> _get_result_info(ix, sorted[i])],
              locals |-> [e EXCEPT !.exit = "return results",
                                   !.index.postings[e.aliases[1]] = sorted]]
    ELSE [kind |-> "return", value |-> <<>>, locals |-> e]

\* The end of _evaluate_query (lines 188-202): the results of result_stack[0],
\* or [] after printing an error
eval_return(ix, e) ==
    IF e.exit = "IndexError"
    THEN [kind |-> "raise", value |-> "IndexError", locals |-> e]
    ELSE IF e.exit # "run"
    THEN [kind |-> "return", value |-> <<>>, locals |-> e]
    ELSE IF e.result_stack # <<>>
    THEN LET final_result_ids == e.result_stack[1]
         IN  [kind |-> "return",
              value |-> [i \in 1..Len(final_result_ids) |->
                            _get_result_info(ix, final_result_ids[i])],
              locals |-> [e EXCEPT !.exit = "return results"]]
    ELSE [kind |-> "return", value |-> <<>>,
          locals |-> [e EXCEPT !.exit = "return [] (no results)"]]

\* Retriever._evaluate_query(query_terms)
_evaluate_query(ix, query_terms) ==
    LET e0 == [result_stack |-> <<>>, operator_stack |-> <<>>,
               inside_parenthesis |-> 0, exit |-> "run",
               aliases |-> <<>>, index |-> ix]
    IN  eval_return(ix, eval_rest(ix, eval_loop(ix, e0, query_terms)))

\* Retriever.search_query(query)
search_query(ix, query) ==
    LET query_terms == shunting_yard(query)
        r == _evaluate_query(ix, query_terms)
    IN  [kind |-> r.kind, value |-> r.value,
         locals |-> [query_terms |-> query_terms,
                     result_stack |-> r.locals.result_stack,
                     operator_stack |-> r.locals.operator_stack,
                     inside_parenthesis |-> r.locals.inside_parenthesis,
                     exit |-> r.locals.exit,
                     aliases |-> r.locals.aliases,
                     index |-> r.locals.index]]

\* Retriever.search_from_file(fname), the file holding lines: the dict of every
\* line's results, unless a query raises
search_from_file(ix, lines) ==
    IF \E i \in 1..Len(lines) : search_query(ix, lines[i]).kind = "raise"
    THEN [kind |-> "raise", value |-> "IndexError"]
    ELSE [kind |-> "return",
          value |-> [q \in Range(lines) |-> search_query(ix, q).value]]

Index == [documents |-> documents, postings |-> postings]

\* The queries put to the Retriever
GenericTokens ==
    {"grado", "master", "tesis", "AND", "OR", "NOT", "(", ")", "(grado"}
ShortQueries ==
    {<<>>} \cup {<<x>> : x \in GenericTokens}
           \cup {<<x, y>> : x, y \in GenericTokens}
Queries ==
    ShortQueries
    \cup {<<a, op, b>> : a, b \in Words, op \in {"AND", "OR"}}
    \cup {<<a, "AND", "NOT", b>> : a, b \in Vocabulary}
    \cup {<<a, "AND", "OR", b>> : a, b \in Vocabulary}
    \cup {<<"(", a, "AND", b>> : a, b \in Vocabulary}
    \cup {<<a, "AND", b, ")">> : a, b \in Vocabulary}
    \cup {<<a, "OR", b, "AND", c>> : a, b, c \in Vocabulary}
    \cup {<<a, "AND", "NOT", b, "OR", c>> : a, b, c \in Vocabulary}
    \cup {<<a, "AND", "(", b, "OR", c, ")">> : a, b, c \in Vocabulary}
    \cup {<<"NOT", "(", a, op, b, ")">> : a, b \in Vocabulary, op \in {"AND", "OR"}}
    \cup {<<"NOT", a, op, "NOT", b>> : a, b \in Vocabulary, op \in {"AND", "OR"}}

\* The query files put to the Retriever, a line given as line.strip().split()
FileLines ==
    { <<>>, <<"grado">>, <<"tesis">>, <<"grado", "AND", "master">>,
      <<"grado", "AND", "OR", "master">> }
QueryFiles ==
    {<<>>} \cup {<<l>> : l \in FileLines} \cup {<<l, m>> : l, m \in FileLines}

(***************************************************************************)
(* The Retriever's operations, each called once on the loaded index.       *)
(***************************************************************************)
CallSearchQuery(query) ==
    /\ pc = "ready"
    /\ pc' = "done"
    /\ call' = [op |-> "search_query", arg |-> query]
    /\ LET r == search_query(Index, query)
       IN  /\ ret' = [kind |-> r.kind, value |-> r.value]
           /\ locals' = r.locals
           /\ documents' = r.locals.index.documents
           /\ postings' = r.locals.index.postings
    /\ UNCHANGED <<failed_pdfs, raised, nltk_data, build_vars, crawler>>

CallEvaluateQuery(query_terms) ==
    /\ pc = "ready"
    /\ pc' = "done"
    /\ call' = [op |-> "_evaluate_query", arg |-> query_terms]
    /\ LET r == _evaluate_query(Index, query_terms)
       IN  /\ ret' = [kind |-> r.kind, value |-> r.value]
           /\ locals' = r.locals
           /\ documents' = r.locals.index.documents
           /\ postings' = r.locals.index.postings
    /\ UNCHANGED <<failed_pdfs, raised, nltk_data, build_vars, crawler>>

CallSearchFromFile(lines) ==
    /\ pc = "ready"
    /\ pc' = "done"
    /\ call' = [op |-> "search_from_file", arg |-> lines]
    /\ ret' = search_from_file(Index, lines)
    /\ locals' = [exit |-> "none"]
    /\ UNCHANGED <<documents, postings, failed_pdfs, raised, nltk_data, build_vars, crawler>>

\* The corpora an index is built from: JSON records with these texts
IndexTexts ==
    { <<>>, <<"grado">>, <<"docencia">>, <<"master">>,
      <<"grado", "docencia">>, <<"grado", "master">> }
ScenarioCorpus == << <<"grado", "docencia">>, <<"grado", "master">>, <<"docencia">> >>
RECURSIVE CorporaOfLen(_)
CorporaOfLen(n) ==
    IF n = 0 THEN {<<>>}
    ELSE {Append(c, t) : c \in CorporaOfLen(n - 1), t \in IndexTexts}
\* A corpus of eight documents: the id 8 is the first whose slot in a set's
\* table of 8 lies before the slot of a smaller id
EightCorpus ==
    << <<"grado">>, <<"docencia">>, <<"docencia">>, <<"docencia">>,
       <<"docencia">>, <<"docencia">>, <<"docencia">>, <<"grado", "master">> >>
Corpora ==
    {ScenarioCorpus, EightCorpus} \cup UNION {CorporaOfLen(n) : n \in 0..MaxIndexDocs}

\* The index build_index saves for a corpus
BuiltIndex(corpus) ==
    json_loop([documents |-> <<>>, postings |-> <<>>, raised |-> "none"],
              [k \in 1..Len(corpus) |-> Record(k, corpus[k])], TRUE)

\* Retriever.__init__: load_index gives the index an Indexer saved
InitRetriever ==
    /\ \E corpus \in Corpora :
          /\ documents = BuiltIndex(corpus).documents
          /\ postings = BuiltIndex(corpus).postings
    /\ failed_pdfs = <<>>
    /\ raised = "none"
    /\ nltk_data = TRUE
    /\ pc = "ready"
    /\ call = [op |-> "none"]
    /\ locals = [exit |-> "none"]
    /\ ret = [kind |-> "none"]
    /\ input_folder = <<>>
    /\ index_file = NoIndexFile
    /\ builds = 0
    /\ crawler = [pc |-> "none"]

NextRetriever ==
    \/ \E query \in Queries : CallSearchQuery(query)
    \/ \E query_terms \in ShortQueries : CallEvaluateQuery(query_terms)
    \/ \E lines \in QueryFiles : CallSearchFromFile(lines)

SpecRetriever == InitRetriever /\ [][NextRetriever]_vars

(***************************************************************************)
(* _and_, _or_ and _not_ called on id lists: the posting lists of an index *)
(* are ascending, the lists the operations return may stand in any order.  *)
(***************************************************************************)
IdLists(n) ==
    {l \in UNION {[1..k -> 1..n] : k \in 0..n} :
        \A i, j \in 1..Len(l) : i # j => l[i] # l[j]}
PostingLists(n) ==
    {l \in IdLists(n) : \A i \in 1..(Len(l) - 1) : l[i] < l[i + 1]}

CallSetOperations ==
    /\ pc = "operands"
    /\ pc' = "done"
    /\ LET a == call.arg[1]
           b == call.arg[2]
           c == call.arg[3]
       IN  ret' = [kind |-> "return",
                   and_ab |-> _and_(a, b), and_ba |-> _and_(b, a),
                   or_ab |-> _or_(a, b), or_ba |-> _or_(b, a),
                   and_ab_c |-> _and_(_and_(a, b), c),
                   and_a_bc |-> _and_(a, _and_(b, c)),
                   or_ab_c |-> _or_(_or_(a, b), c),
                   or_a_bc |-> _or_(a, _or_(b, c)),
                   not_a |-> _not_(Index, a),
                   not_not_a |-> _not_(Index, _not_(Index, a))]
    /\ UNCHANGED <<documents, postings, failed_pdfs, raised, nltk_data, call, locals,
                   build_vars, crawler>>

\* A Retriever on an index of n documents, and the id lists of the call
InitSetOperations ==
    /\ \E n \in 0..MaxUniverse :
          /\ documents = BuiltIndex([k \in 1..n |-> <<>>]).documents
          /\ \E a, b \in IdLists(n), c \in PostingLists(n) :
                call = [op |-> "set operations", arg |-> <<a, b, c>>]
    /\ postings = <<>>
    /\ failed_pdfs = <<>>
    /\ raised = "none"
    /\ nltk_data = TRUE
    /\ pc = "operands"
    /\ locals = [exit |-> "none"]
    /\ ret = [kind |-> "none"]
    /\ input_folder = <<>>
    /\ index_file = NoIndexFile
    /\ builds = 0
    /\ crawler = [pc |-> "none"]

NextSetOperations == CallSetOperations

SpecSetOperations == InitSetOperations /\ [][NextSetOperations]_vars

\* Indexer.__init__: an empty Index, no failed PDF
Init ==
    /\ documents = <<>>
    /\ postings = <<>>
    /\ failed_pdfs = <<>>
    /\ raised = "none"
    /\ nltk_data \in BOOLEAN
    /\ pc = "index"
    /\ call = [op |-> "none"]
    /\ locals = [exit |-> "none"]
    /\ ret = [kind |-> "none"]
    /\ input_folder = <<>>
    /\ index_file = NoIndexFile
    /\ builds = 0
    /\ crawler = [pc |-> "none"]

Next ==
    \/ \E data_list \in JsonFiles(Len(documents)) : process_json(data_list)
    \/ \E pdf \in Pdfs : process_pdf(<<"pdf", Len(failed_pdfs) + 1>>, pdf)

Spec == Init /\ [][Next]_vars

\* Indexer.__init__ before build_index: the folder args.input_folder names
InitBuild ==
    /\ documents = <<>>
    /\ postings = <<>>
    /\ failed_pdfs = <<>>
    /\ raised = "none"
    /\ nltk_data \in BOOLEAN
    /\ pc = "build"
    /\ call = [op |-> "none"]
    /\ locals = [exit |-> "none"]
    /\ ret = [kind |-> "none"]
    /\ input_folder \in Folders
    /\ index_file = NoIndexFile
    /\ builds = 0
    /\ crawler = [pc |-> "none"]

NextBuild == build_index

SpecBuild == InitBuild /\ [][NextBuild]_vars

(***************************************************************************)
(* 3. The Crawler                                                          *)
(***************************************************************************)

\* The hrefs the pages of the model's web hold: three of the university's
\* site, one of another site
BaseUrl == "https://universidadeuropea.com/"
Hrefs ==
    { BaseUrl, "https://universidadeuropea.com/a", "https://universidadeuropea.com/b",
      "https://example.com/" }

\* str.startswith("https://universidadeuropea.com/") on the model's hrefs
startswith_site(href) == href # "https://example.com/"

\* Crawler.find_urls(text); a page's text is the set of the hrefs of its <a> tags
find_urls(text) == {href \in text : startswith_site(href)}

\* The pages a request may answer with
Pages ==
    { {}, {"https://universidadeuropea.com/a"}, {"https://universidadeuropea.com/b"},
      {BaseUrl, "https://universidadeuropea.com/b"},
      {BaseUrl, "https://universidadeuropea.com/a", "https://example.com/"},
      {"https://universidadeuropea.com/a", "https://universidadeuropea.com/b"} }

\* The orders in which a for loop may walk a set of strings
OrdersOf(S) ==
    {o \in [1..Cardinality(S) -> S] : \A i, j \in 1..Cardinality(S) : i # j => o[i] # o[j]}

\* The while condition with <= for <: one page more than max_webs is fetched
loop_condition_le(c) ==
    c.queue # <<>> /\ Cardinality(c.visited_urls) <= c.max_webs

\* The condition of crawl's while loop (line 38)
loop_condition(c) ==
    c.queue # <<>> /\ Cardinality(c.visited_urls) < c.max_webs

\* One pass of the loop whose URL was visited already: continue (lines 40-44)
crawl_continue ==
    /\ crawler.pc = "loop"
    /\ loop_condition(crawler)
    /\ Head(crawler.queue) \in crawler.visited_urls
    /\ crawler' = [crawler EXCEPT !.queue = Tail(crawler.queue)]
    /\ UNCHANGED <<documents, postings, failed_pdfs, raised, nltk_data, pc, call, locals,
                   ret, build_vars>>

\* One pass of the loop whose request raises, or answers with another status
\* than 200, or whose page find_urls cannot parse: the except clause prints,
\* nothing but the queue has changed (lines 46-49, 78-80)
crawl_request_fails ==
    /\ crawler.pc = "loop"
    /\ loop_condition(crawler)
    /\ Head(crawler.queue) \notin crawler.visited_urls
    /\ crawler' = [crawler EXCEPT !.queue = Tail(crawler.queue)]
    /\ UNCHANGED <<documents, postings, failed_pdfs, raised, nltk_data, pc, call, locals,
                   ret, build_vars>>

\* One pass of the loop whose request answers 200 with the page html_content,
\* the for loop walking new_urls in the order given (lines 46-76)
crawl_page(html_content, order) ==
    /\ crawler.pc = "loop"
    /\ loop_condition(crawler)
    /\ LET current_url == Head(crawler.queue)
           put == SelectSeq(order, LAMBDA new_url : new_url \notin crawler.visited_urls)
       IN  /\ current_url \notin crawler.visited_urls
           /\ crawler' =
                  [crawler EXCEPT
                      !.queue = Tail(crawler.queue) \o put,
                      !.output_folder = "bound",
                      !.processed_urls =
                          Append(crawler.processed_urls,
                                 [url |-> current_url, text |-> html_content]),
                      !.visited_urls = crawler.visited_urls \cup {current_url}]
    /\ UNCHANGED <<documents, postings, failed_pdfs, raised, nltk_data, pc, call, locals,
                   ret, build_vars>>

\* The end of crawl (lines 82-85): processed_urls is dumped into
\* processed_urls.json of output_folder, a local that only a pass with a page
\* has bound
crawl_dump ==
    /\ crawler.pc = "loop"
    /\ ~loop_condition(crawler)
    /\ crawler' =
          IF crawler.output_folder = "bound"
          THEN [crawler EXCEPT !.pc = "done",
                               !.file = [written |-> TRUE,
                                         content |-> crawler.processed_urls]]
          ELSE [crawler EXCEPT !.pc = "done", !.raised = "UnboundLocalError"]
    /\ UNCHANGED <<documents, postings, failed_pdfs, raised, nltk_data, pc, call, locals,
                   ret, build_vars>>

\* crawl up to its loop (lines 30-35), for args.url and args.max_webs
InitCrawler ==
    /\ documents = <<>>
    /\ postings = <<>>
    /\ failed_pdfs = <<>>
    /\ raised = "none"
    /\ nltk_data = TRUE
    /\ pc = "crawl"
    /\ call = [op |-> "none"]
    /\ locals = [exit |-> "none"]
    /\ ret = [kind |-> "none"]
    /\ input_folder = <<>>
    /\ index_file = NoIndexFile
    /\ builds = 0
    /\ \E max_webs \in 0..MaxWebs :
          crawler = [pc |-> "loop", max_webs |-> max_webs, queue |-> <<BaseUrl>>,
                     visited_urls |-> {}, processed_urls |-> <<>>,
                     output_folder |-> "unbound", raised |-> "none",
                     file |-> [written |-> FALSE]]

NextCrawler ==
    \/ crawl_continue
    \/ crawl_request_fails
    \/ \E html_content \in Pages :
          \E order \in OrdersOf(find_urls(html_content)) : crawl_page(html_content, order)
    \/ crawl_dump

SpecCrawler == InitCrawler /\ [][NextCrawler]_vars

(***************************************************************************)
(* 4. The claims                                                           *)
(***************************************************************************)

\* The Retriever has answered a call of op
Called(op) == pc = "done" /\ call.op = op

\* The token list _evaluate_query was given
QueryTerms ==
    IF call.op = "_evaluate_query" THEN call.arg ELSE locals.query_terms

\* The documents a list of Results stands for
DocsOf(results) ==
    {i \in 1..Len(documents) :
        \E k \in 1..Len(results) : results[k].url = documents[i].url}

\* The ids of a term's posting list, none for a term the index lacks
IdsOf(term) == IF term \in DOMAIN postings THEN Range(postings[term]) ELSE {}

\* A token list is in postfix order: each operator finds its operands before it
RECURSIVE PostfixDepth(_, _)
PostfixDepth(tokens, depth) ==
    IF tokens = <<>> THEN depth
    ELSE IF depth < 0 THEN -1
    ELSE IF Head(tokens) = "NOT"
    THEN PostfixDepth(Tail(tokens), IF depth >= 1 THEN depth ELSE -1)
    ELSE IF Head(tokens) \in {"AND", "OR"}
    THEN PostfixDepth(Tail(tokens), IF depth >= 2 THEN depth - 1 ELSE -1)
    ELSE PostfixDepth(Tail(tokens), depth + 1)
IsPostfix(tokens) == PostfixDepth(tokens, 0) = 1

\* The index of the three-document scenario
ScenarioIndex ==
    /\ Len(documents) = 3
    /\ DOMAIN postings = Vocabulary
    /\ postings["grado"] = <<1, 2>>
    /\ postings["docencia"] = <<1, 3>>
    /\ postings["master"] = <<2>>

\* C1: on the scenario index, search_query("grado AND NOT master OR docencia")
\* returns exactly the Results of document 1 and document 3, in that order.
C1_ScenarioQuery ==
    ( /\ Called("search_query")
      /\ ScenarioIndex
      /\ call.arg = <<"grado", "AND", "NOT", "master", "OR", "docencia">> )
    => /\ ret.kind = "return"
       /\ ret.value = <<_get_result_info(Index, 1), _get_result_info(Index, 3)>>

\* C2: shunting_yard gives postfix under NOT > AND > OR: "a OR b AND c" becomes
\* [a, b, c, AND, OR], "a AND NOT b OR c" becomes [a, b, NOT, AND, c, OR], and
\* in its output every operator comes after its operands.
C2_ShuntingYardPostfix ==
    Called("search_query") =>
        \A a, b, c \in Vocabulary :
            /\ call.arg = <<a, "OR", b, "AND", c>>
               => locals.query_terms = <<a, b, c, "AND", "OR">>
            /\ call.arg = <<a, "AND", "NOT", b, "OR", c>>
               => locals.query_terms = <<a, b, "NOT", "AND", c, "OR">>
            /\ call.arg \in {<<a, "OR", b, "AND", c>>, <<a, "AND", "NOT", b, "OR", c>>,
                             <<a, "AND", b>>, <<a, "OR", b>>}
               => IsPostfix(locals.query_terms)

\* C3: for indexed terms a, b, c, search_query("a AND ( b OR c )") returns the
\* Results of exactly postings[a] intersected with (postings[b] union
\* postings[c]), and the parser consumes the two parentheses.
C3_ParenthesesGroup ==
    Called("search_query") =>
        \A a, b, c \in DOMAIN postings :
            call.arg = <<a, "AND", "(", b, "OR", c, ")">>
            => /\ ret.kind = "return"
               /\ DocsOf(ret.value) = IdsOf(a) \cap (IdsOf(b) \cup IdsOf(c))
               /\ "(" \notin Range(locals.query_terms)
               /\ ")" \notin Range(locals.query_terms)

\* C4: a query with an unmatched "(" or an unmatched ")" is rejected: it is not
\* turned into a token list that evaluates to a normal result.
C4_UnbalancedRejected ==
    Called("search_query") =>
        \A a, b \in Vocabulary :
            call.arg \in {<<"(", a, "AND", b>>, <<a, "AND", b, ")">>}
            => locals.exit # "return results"

\* C5: a term the index lacks counts as the empty posting list: for an indexed
\* a and an absent t, "a OR t" returns the Results of postings[a] and "NOT t"
\* returns the Results of all documents.
C5_AbsentTermIsEmptySet ==
    Called("search_query") =>
        \A t \in Words \ DOMAIN postings :
            /\ \A a \in DOMAIN postings :
                   call.arg = <<a, "OR", t>>
                   => ret.kind = "return" /\ DocsOf(ret.value) = IdsOf(a)
            /\ call.arg = <<"NOT", t>>
               => ret.kind = "return" /\ DocsOf(ret.value) = 1..Len(documents)

\* C6: for a term t that is no key of postings, _evaluate_query of the
\* one-token list [t] returns the empty list.
C6_AbsentTermEmptyList ==
    ( /\ pc = "done"
      /\ call.op \in {"_evaluate_query", "search_query"}
      /\ Len(QueryTerms) = 1
      /\ QueryTerms[1] \in Words \ DOMAIN postings )
    => ret = [kind |-> "return", value |-> <<>>]

\* C6's case: a one-token list naming an absent term was evaluated on an index
\* that holds documents and other terms.
C6_Witness ==
    /\ Called("_evaluate_query")
    /\ call.arg = <<"master">>
    /\ "master" \notin DOMAIN postings
    /\ "grado" \in DOMAIN postings
    /\ Len(documents) = 2

\* C7: _evaluate_query returns the results of a stack value only when exactly
\* one value is left on the result stack at the end of the input.
C7_ExactlyOneValueLeft ==
    ( /\ pc = "done"
      /\ call.op \in {"_evaluate_query", "search_query"}
      /\ locals.exit = "return results" )
    => Len(locals.result_stack) = 1

\* C8: what search_query returns for "a AND", whose operator lacks an operand,
\* differs from what it returns for a well-formed query that matches nothing.
C8_MalformedDistinguishable ==
    Called("search_query") =>
        \A a \in Words :
            call.arg = <<a, "AND">>
            => \A x, y \in DOMAIN postings :
                   IdsOf(x) \cap IdsOf(y) = {}
                   => LET r == search_query(Index, <<x, "AND", y>>)
                      IN  ret # [kind |-> r.kind, value |-> r.value]

\* C9: search_from_file returns a mapping with an entry for every line of the
\* file, whatever the lines are; no line makes it raise.
C9_BatchNotAborted ==
    Called("search_from_file")
    => /\ ret.kind = "return"
       /\ DOMAIN ret.value = Range(call.arg)

\* C10: in every state of the Indexer every posting list is strictly
\* ascending and holds only ids of 1..len(documents).
C10_PostingsWellFormed ==
    \A t \in DOMAIN postings :
        \A i \in 1..Len(postings[t]) :
            /\ postings[t][i] \in 1..Len(documents)
            /\ i > 1 => postings[t][i - 1] < postings[t][i]

\* C10's case: a PDF call failed after it had appended its document, and a
\* posting list holds the ids of the documents ingested before and after it,
\* one of them a document whose text names the term twice.
C10_Witness ==
    /\ failed_pdfs # <<>>
    /\ Len(documents) = 3
    /\ documents[2].url = ""
    /\ parse_rejects(documents[2].text)
    /\ documents[3].text = <<"grado", "grado">>
    /\ "grado" \in DOMAIN postings
    /\ postings["grado"] = <<1, 3>>

\* C11: the document at position i (0-based) of documents has id i + 1, that
\* is documents[i].id = i for the 1-based sequence, in every state the Indexer
\* reaches through calls that succeed and calls that fail.
C11_IdsFollowPositions ==
    \A i \in 1..Len(documents) : documents[i].id = i

\* C11's case: a PDF call failed after appending document 1, a later JSON call
\* ingested document 2 and then raised KeyError on its next record.
C11_Witness ==
    /\ failed_pdfs # <<>>
    /\ raised = "KeyError"
    /\ Len(documents) = 2
    /\ documents[1].url = ""
    /\ parse_rejects(documents[1].text)
    /\ documents[2].url = Url(2)

\* The records of the input folder's JSON files
RecordsOfFolder ==
    UNION {Range(input_folder[i].data_list) :
              i \in {j \in 1..Len(input_folder) : input_folder[j].kind = "json"}}

\* C12: an ingestion failure is local to the record: when the corpus holds a
\* JSON record without "url" or "text", build_index skips that record, still
\* indexes every other record of the corpus, and still saves the index.
C12_FailureIsLocal ==
    ( /\ pc = "build"
      /\ builds = 1
      /\ nltk_data
      /\ \E r \in RecordsOfFolder : ~({"url", "text"} \subseteq DOMAIN r) )
    => /\ raised = "none"
       /\ index_file.saved
       /\ \A r \in RecordsOfFolder :
              {"url", "text"} \subseteq DOMAIN r
              => \E i \in 1..Len(documents) : documents[i].url = r.url

\* C13: query evaluation never mutates the index: for every query, well formed
\* or not, postings and documents are after search_query what they were before
\* it, the posting lists that were pushed on the result stack included.
C13_QueryLeavesIndex ==
    [][(pc = "ready" /\ pc' = "done" /\ call'.op \in {"search_query", "_evaluate_query"})
       => (documents' = documents /\ postings' = postings)]_vars

\* C13's case: search_query has returned the results of a value that is a
\* posting list of the index itself, one of two ids.
C13_Witness ==
    /\ Called("search_query")
    /\ locals.exit = "return results"
    /\ locals.aliases # <<>>
    /\ locals.aliases[1] \in DOMAIN postings
    /\ Len(postings[locals.aliases[1]]) = 2
    /\ Len(ret.value) = 2

\* The document a Result was made of
DocOf(result) == CHOOSE i \in 1..Len(documents) : documents[i].url = result.url

\* C14: the result of a query is ordered and free of duplicates: the Results
\* _evaluate_query returns stand for document ids in strictly ascending
\* order, also when AND, OR or NOT produced them.
C14_ResultsAscending ==
    ( /\ pc = "done"
      /\ call.op \in {"_evaluate_query", "search_query"}
      /\ ret.kind = "return" )
    => \A k \in 1..(Len(ret.value) - 1) : DocOf(ret.value[k]) < DocOf(ret.value[k + 1])

\* C15: De Morgan's laws hold for queries: for indexed terms a and b,
\* "NOT ( a AND b )" returns Results of the same set of documents as
\* "NOT a OR NOT b", and "NOT ( a OR b )" of the same set as "NOT a AND NOT b".
C15_DeMorgan ==
    Called("search_query") =>
        \A a, b \in DOMAIN postings :
            /\ call.arg = <<"NOT", "(", a, "AND", b, ")">>
               => LET r == search_query(Index, <<"NOT", a, "OR", "NOT", b>>)
                  IN  /\ ret.kind = "return"
                      /\ r.kind = "return"
                      /\ DocsOf(ret.value) = DocsOf(r.value)
            /\ call.arg = <<"NOT", "(", a, "OR", b, ")">>
               => LET r == search_query(Index, <<"NOT", a, "AND", "NOT", b>>)
                  IN  /\ ret.kind = "return"
                      /\ r.kind = "return"
                      /\ DocsOf(ret.value) = DocsOf(r.value)

\* What build_index makes of the input folder on a new Indexer
FirstBuild ==
    build_loop([documents |-> <<>>, postings |-> <<>>,
                failed_pdfs |-> <<>>, raised |-> "none"], input_folder, 1, nltk_data)

\* C16: rebuilding is idempotent: after build_index was called a second time
\* on the same Indexer over the unchanged corpus, documents and postings are
\* what they were after the first call.
C16_RebuildIdempotent ==
    ( /\ pc = "build"
      /\ builds = 2
      /\ raised = "none" )
    => /\ documents = FirstBuild.documents
       /\ postings = FirstBuild.postings
       /\ index_file = save(FirstBuild)

\* The distinct terms of a document's text: its pieces outside markup, without
\* the stopwords, accents folded
TermsOf(text) == {unidecode(w) : w \in Range(remove_stopwords(tokenize(parse(text))))}

\* Every document so far was ingested without an error: the stopword corpus
\* is there and no appended text made parse raise
IngestedWithoutError ==
    /\ nltk_data
    /\ \A i \in 1..Len(documents) : ~parse_rejects(documents[i].text)

\* How many times id stands in the posting list of t
Occurrences(t, id) ==
    IF t \in DOMAIN postings
    THEN Cardinality({k \in 1..Len(postings[t]) : postings[t][k] = id})
    ELSE 0

\* C17: after records were ingested without error, postings is exactly the
\* membership relation of terms and documents: d.id is in postings[t], once,
\* iff t is a distinct term of d's text (stopwords removed, accents folded),
\* however often t occurs in d; the scenario corpus gives grado = [1, 2],
\* docencia = [1, 3], master = [2].
C17_PostingsAreMembership ==
    IngestedWithoutError
    => /\ \A i \in 1..Len(documents) :
              \A t \in (DOMAIN postings) \cup TermsOf(documents[i].text) :
                  Occurrences(t, documents[i].id)
                      = IF t \in TermsOf(documents[i].text) THEN 1 ELSE 0
       /\ [i \in 1..Len(documents) |-> documents[i].text] = ScenarioCorpus
          => ScenarioIndex

\* C17's case: three JSON records were ingested without error, the first
\* naming grado twice, the second with an accented word, the third sharing a
\* term with the first.
C17_Witness ==
    /\ IngestedWithoutError
    /\ Len(documents) = 3
    /\ documents[1].text = <<"grado", "grado">>
    /\ documents[2].text = <<"máster">>
    /\ documents[3].text = <<"grado", "docencia">>
    /\ postings["grado"] = <<1, 3>>
    /\ postings["master"] = <<2>>

\* C18: as sets of ids, _and_ and _or_ are commutative and associative, and
\* _not_(_not_(A)) is A, for all id lists A, B, C within the universe 1..N.
C18_SetAlgebra ==
    (pc = "done" /\ call.op = "set operations")
    => /\ Range(ret.and_ab) = Range(ret.and_ba)
       /\ Range(ret.or_ab) = Range(ret.or_ba)
       /\ Range(ret.and_ab_c) = Range(ret.and_a_bc)
       /\ Range(ret.or_ab_c) = Range(ret.or_a_bc)
       /\ Range(ret.not_not_a) = Range(call.arg[1])

\* C18's case: the operations were applied to three different lists of a
\* universe of three ids, the first holding the last id and not in ascending
\* order, and neither A nor its complement is empty.
C18_Witness ==
    /\ pc = "done"
    /\ call.op = "set operations"
    /\ Len(documents) = 3
    /\ call.arg[1] = <<3, 1>>
    /\ call.arg[2] = <<1, 2>>
    /\ call.arg[3] = <<2, 3>>
    /\ ret.not_a = <<2>>
    /\ ret.not_not_a = <<1, 3>>

\* C19: every key of postings is lower case, has its accents folded and holds
\* no punctuation character, so that a document whose text holds the word
\* "Grado," is indexed under the key "grado".
C19_KeysNormalized ==
    /\ \A k \in DOMAIN postings :
           /\ lower(k) = k
           /\ unidecode(k) = k
           /\ remove_punctuation(k) = k
    /\ IngestedWithoutError
       => \A i \in 1..Len(documents) :
              "Grado," \in Range(documents[i].text) => i \in IdsOf("grado")

\* The URLs of the entries of processed_urls
ProcessedUrls == {crawler.processed_urls[i].url : i \in 1..Len(crawler.processed_urls)}

\* C20: in every state of the crawl loop, whatever links the pages hold and
\* whichever requests fail, len(visited_urls) <= max_webs, visited_urls and
\* processed_urls hold the same URLs, and no URL is twice in processed_urls.
C20_CrawlBounded ==
    crawler.pc \in {"loop", "done"}
    => /\ Cardinality(crawler.visited_urls) <= crawler.max_webs
       /\ crawler.visited_urls = ProcessedUrls
       /\ \A i, j \in 1..Len(crawler.processed_urls) :
              i # j => crawler.processed_urls[i].url # crawler.processed_urls[j].url

\* C20's case: the crawl stopped at max_webs = 2 pages with URLs left in the
\* queue, one of them a URL it has visited.
C20_Witness ==
    /\ crawler.pc = "done"
    /\ crawler.max_webs = 2
    /\ Len(crawler.processed_urls) = 2
    /\ \E i \in 1..Len(crawler.queue) : crawler.queue[i] \in crawler.visited_urls

\* C21: every run of crawl that ends has written processed_urls.json with the
\* list processed_urls and raised nothing; the run in which no page was
\* fetched, every request failing or answering another status than 200,
\* writes the empty list.
C21_CrawlAlwaysDumps ==
    crawler.pc = "done"
    => /\ crawler.raised = "none"
       /\ crawler.file.written
       /\ crawler.file.content = crawler.processed_urls

====
